---- MODULE Spec2Model ----
(***************************************************************************)
(* Model of predict_spring.py: the command-line entry point (__main__)     *)
(* and predict_image, one action per statement group of the script.  np.   *)
(* argsort with the default kind is not a stable sort, so the order of     *)
(* equal scores is a nondeterministic choice.                              *)
(*                                                                         *)
(* Scores are quantised: a score s stands for the float32 value s/10000,   *)
(* so score*100 is s hundredths of a percent.  The values of Scores are    *)
(* dyadic fractions, for which the float32 product score*100 is exact and  *)
(* the '.1f' conversion is the round-half-even of that exact value.        *)
(* Python indices are 0-based: index idx addresses element idx+1 of the    *)
(* sequences below.                                                        *)
(***************************************************************************)
EXTENDS Integers, Sequences, FiniteSets, TLC

\* ------------------------------------------------------------------ bounds
\* most classes the model outputs, most names the label file holds
MaxN == 6
MaxLabels == MaxN

\* Scores the model may output: 0.1875 and (a raw score, no softmax) 1.25
Scores == {1875, 12500}

\* Names the label file may hold, in file order
FoodClasses == <<"apple_pie", "bibimbap", "cannoli", "donuts", "edamame",
                 "falafel", "gnocchi", "hummus", "lasagna", "macarons">>

\* --------------------------------------------------------- program constants
TopK == 5
InputSize == 224

\* the process: argc, the files it reads (model_dir, label_file, image_file),
\* its position pc, its output stdout and exit code (-1 while running), the
\* locals of predict_image, the exception that left predict_image (exc) and
\* the statements executed so far (steps)
VARIABLES pc, argc, model_dir, label_file, image_file, stdout, exitCode,
          loaded, class_names, img, predictions, top_idx, top_indices, i,
          exc, steps

env == <<argc, model_dir, label_file, image_file>>

vars == <<pc, argc, model_dir, label_file, image_file, stdout, exitCode,
          loaded, class_names, img, predictions, top_idx, top_indices, i,
          exc, steps>>

\* ------------------------------------------------------------ output lines
Line(k, r, t, p) == [kind |-> k, rank |-> r, text |-> t, pct |-> p]

NoArgLine == Line("error", 0, "No image path provided", 0)
ImageErrorLine == Line("error", 0, "Could not read image", 0)
HeaderLine == Line("header", 0, "All predictions:", 0)

\* str(e) of the exceptions the pipeline can raise
Message(e) ==
    CASE e = "OSError" -> "SavedModel file does not exist"
      [] e = "FileNotFoundError" -> "No such file or directory"
      [] e = "JSONDecodeError" -> "Expecting value"
      [] e = "InvalidArgumentError" -> "inference failed"
      [] e = "ValueError" -> "attempt to get argmax of an empty sequence"
      [] e = "IndexError" -> "list index out of range"
      [] OTHER -> "1"

GenericErrorLine(e) == Line("error", 0, Message(e), 0)

\* Faulty variant of IsException: a bare `except:` catches SystemExit too
IsExceptionCatchAll(e) == TRUE

\* `except Exception` catches every class but the BaseException-only ones
IsException(e) == e # "SystemExit"

\* ------------------------------------------------------------ pure helpers
\* Faulty variant of Fmt1: the score formatted without the factor 100
Fmt1NoScale(s) ==
    LET q == s \div 1000
        r == s % 1000
    IN  IF r < 500 THEN q
        ELSE IF r > 500 THEN q + 1
        ELSE IF q % 2 = 0 THEN q ELSE q + 1

\* f"{x*100:.1f}": tenths of a percent, round-half-even of s/10
Fmt1(s) ==
    LET q == s \div 10
        r == s % 10
    IN  IF r < 5 THEN q
        ELSE IF r > 5 THEN q + 1
        ELSE IF q % 2 = 0 THEN q ELSE q + 1

\* Faulty variant of Argmax: the 1-based position instead of the index
ArgmaxOneBased(p) ==
    CHOOSE k \in 1..Len(p) :
        /\ \A j \in 1..Len(p) : p[j] <= p[k]
        /\ \A j \in 1..(k - 1) : p[j] < p[k]

\* np.argmax: the first index holding the maximum
Argmax(p) ==
    CHOOSE k \in 0..(Len(p) - 1) :
        /\ \A j \in 0..(Len(p) - 1) : p[j + 1] <= p[k + 1]
        /\ \A j \in 0..(k - 1) : p[j + 1] < p[k + 1]

\* np.argsort (default kind, not stable): every index order that sorts p
\* ascending; equal scores may come out in any relative order
RECURSIVE SortOrders(_, _)
SortOrders(p, S) ==
    IF S = {} THEN {<<>>}
    ELSE UNION { { <<k>> \o rest : rest \in SortOrders(p, S \ {k}) } :
                 k \in { m \in S : \A j \in S : p[m + 1] <= p[j + 1] } }

Argsort(p) == SortOrders(p, 0..(Len(p) - 1))

\* Faulty variant of Last: a[:n], the n lowest of an ascending order
LastFirst(a, n) == SubSeq(a, 1, IF Len(a) < n THEN Len(a) ELSE n)

\* Faulty variant of Last: a[-(n-1):], one element short
LastOffByOne(a, n) ==
    IF Len(a) <= n - 1 THEN a ELSE SubSeq(a, Len(a) - n + 2, Len(a))

\* a[-n:]
Last(a, n) == IF Len(a) <= n THEN a ELSE SubSeq(a, Len(a) - n + 1, Len(a))

\* a[::-1]
Reverse(a) == [k \in 1..Len(a) |-> a[Len(a) + 1 - k]]

\* class_names[idx] succeeds iff idx is inside the list
InTable(names, idx) == idx < Len(names)

\* --------------------------------------------------------------- the script
Init ==
    /\ pc = "main"
    /\ argc \in {1, 2}
    /\ model_dir \in {"ok", "missing"}
    /\ label_file \in {"valid", "missing", "invalid"}
    /\ image_file \in {"valid", "missing", "corrupt"}
    /\ stdout = <<>>
    /\ exitCode = -1
    /\ loaded = FALSE
    /\ class_names = <<>>
    /\ img = <<>>
    /\ predictions = <<>>
    /\ top_idx = -1
    /\ top_indices = <<>>
    /\ i = 0
    /\ exc = "none"
    /\ steps = <<>>

\* Faulty variant of Raise: the handler prints but does not call sys.exit(1)
RaiseNoExit(e, out) ==
    /\ exc' = e
    /\ stdout' = IF IsException(e) THEN Append(out, GenericErrorLine(e)) ELSE out
    /\ exitCode' = 0
    /\ pc' = "exit"

\* lines 53-57: an exception e leaves predict_image with `out` already
\* written: the top-level handler prints "Error: <str(e)>" and exits 1 when
\* it catches e; SystemExit (raised by sys.exit(1), the only one in this
\* script) passes through it and ends the process with exit code 1.
Raise(e, out) ==
    /\ exc' = e
    /\ stdout' = IF IsException(e) THEN Append(out, GenericErrorLine(e)) ELSE out
    /\ exitCode' = 1
    /\ pc' = "exit"

\* Faulty variant of Main: the argument test is missing
MainNoCheck ==
    /\ pc = "main"
    /\ pc' = "load_model"
    /\ UNCHANGED <<env, stdout, exitCode, loaded, class_names, img,
                   predictions, top_idx, top_indices, i, exc, steps>>

\* lines 48-54: the argument test, outside the try block
Main ==
    /\ pc = "main"
    /\ IF argc < 2
       THEN /\ stdout' = Append(stdout, NoArgLine)
            /\ exitCode' = 1
            /\ pc' = "exit"
       ELSE /\ pc' = "load_model"
            /\ UNCHANGED <<stdout, exitCode>>
    /\ UNCHANGED <<env, loaded, class_names, img, predictions, top_idx,
                   top_indices, i, exc, steps>>

\* lines 11-12: tf.saved_model.load and the serving signature
LoadModel ==
    /\ pc = "load_model"
    /\ steps' = Append(steps, "load_model")
    /\ IF model_dir = "ok"
       THEN /\ loaded' = TRUE
            /\ pc' = "load_labels"
            /\ UNCHANGED <<stdout, exitCode, exc>>
       ELSE /\ Raise("OSError", stdout)
            /\ UNCHANGED loaded
    /\ UNCHANGED <<env, class_names, img, predictions, top_idx,
                   top_indices, i>>

\* lines 15-16: open and json.load of the label file; a valid file holds
\* the first n names of FoodClasses
LoadLabels ==
    /\ pc = "load_labels"
    /\ steps' = Append(steps, "load_labels")
    /\ IF label_file = "valid"
       THEN /\ \E n \in 0..MaxLabels : class_names' = SubSeq(FoodClasses, 1, n)
            /\ pc' = "decode"
            /\ UNCHANGED <<stdout, exitCode, exc>>
       ELSE /\ Raise(IF label_file = "missing" THEN "FileNotFoundError"
                                               ELSE "JSONDecodeError", stdout)
            /\ UNCHANGED class_names
    /\ UNCHANGED <<env, loaded, img, predictions, top_idx, top_indices, i>>

\* cv2.imread: None (here <<>>) for a file that is missing or not an image,
\* else the decoded height x width x 3 array
Imread(file) == IF file = "valid" THEN <<3, 4, 3>> ELSE <<>>

\* Faulty variant of ReadImage: the message is printed, sys.exit(1) is missing
ReadImageNoExit ==
    /\ pc = "decode"
    /\ steps' = Append(steps, "decode")
    /\ img' = Imread(image_file)
    /\ stdout' = IF img' = <<>> THEN Append(stdout, ImageErrorLine) ELSE stdout
    /\ pc' = "preprocess"
    /\ UNCHANGED <<env, exitCode, exc, loaded, class_names, predictions,
                   top_idx, top_indices, i>>

\* lines 19-22: an unreadable image prints the dedicated message and calls
\* sys.exit(1)
ReadImage ==
    /\ pc = "decode"
    /\ steps' = Append(steps, "decode")
    /\ img' = Imread(image_file)
    /\ IF img' = <<>>
       THEN Raise("SystemExit", Append(stdout, ImageErrorLine))
       ELSE /\ pc' = "preprocess"
            /\ UNCHANGED <<stdout, exitCode, exc>>
    /\ UNCHANGED <<env, loaded, class_names, predictions, top_idx,
                   top_indices, i>>

\* lines 24-27: cvtColor, resize to 224x224, batch dimension, normalisation
Preprocess ==
    /\ pc = "preprocess"
    /\ steps' = Append(steps, "preprocess")
    /\ img' = <<1, InputSize, InputSize, 3>>
    /\ pc' = "infer"
    /\ UNCHANGED <<env, stdout, exitCode, loaded, class_names, predictions,
                   top_idx, top_indices, i, exc>>

\* lines 30-32: one forward pass; the scores are whatever the model outputs
Infer ==
    /\ pc = "infer"
    /\ steps' = Append(steps, "infer")
    /\ \/ \E n \in 0..MaxN : \E p \in [1..n -> Scores] :
            /\ predictions' = p
            /\ pc' = "argmax"
            /\ UNCHANGED <<stdout, exitCode, exc>>
       \/ /\ Raise("InvalidArgumentError", stdout)
          /\ UNCHANGED predictions
    /\ UNCHANGED <<env, loaded, class_names, img, top_idx, top_indices, i>>

\* lines 35-37: np.argmax raises ValueError on an empty vector; the label
\* lookup raises IndexError outside the table
TopPrediction ==
    /\ pc = "argmax"
    /\ steps' = Append(steps, "argmax")
    /\ IF Len(predictions) = 0
       THEN /\ Raise("ValueError", stdout)
            /\ UNCHANGED top_idx
       ELSE /\ top_idx' = Argmax(predictions)
            /\ IF InTable(class_names, top_idx')
               THEN /\ pc' = "print_top"
                    /\ UNCHANGED <<stdout, exitCode, exc>>
               ELSE Raise("IndexError", stdout)
    /\ UNCHANGED <<env, loaded, class_names, img, predictions,
                   top_indices, i>>

\* line 40
PrintTop ==
    /\ pc = "print_top"
    /\ steps' = Append(steps, "print_top")
    /\ stdout' = Append(stdout, Line("top", 0, class_names[top_idx + 1],
                                     Fmt1(predictions[top_idx + 1])))
    /\ pc' = "print_header"
    /\ UNCHANGED <<env, exitCode, loaded, class_names, img, predictions,
                   top_idx, top_indices, i, exc>>

\* line 43
PrintHeader ==
    /\ pc = "print_header"
    /\ steps' = Append(steps, "print_header")
    /\ stdout' = Append(stdout, HeaderLine)
    /\ pc' = "argsort"
    /\ UNCHANGED <<env, exitCode, loaded, class_names, img, predictions,
                   top_idx, top_indices, i, exc>>

\* line 44: np.argsort(predictions)[-5:][::-1]
TopIndices ==
    /\ pc = "argsort"
    /\ steps' = Append(steps, "argsort")
    /\ \E order \in Argsort(predictions) :
         top_indices' = Reverse(Last(order, TopK))
    /\ i' = 1
    /\ pc' = "loop"
    /\ UNCHANGED <<env, stdout, exitCode, loaded, class_names, img,
                   predictions, top_idx, exc>>

\* the lines the loop prints before the first label lookup that fails:
\* Ranked(names, p, t, r) is the output of iterations r..Len(t)
RECURSIVE Ranked(_, _, _, _)
Ranked(names, p, t, r) ==
    IF r > Len(t) \/ ~InTable(names, t[r]) THEN <<>>
    ELSE <<Line("ranked", r, names[t[r] + 1], Fmt1(p[t[r] + 1]))>>
         \o Ranked(names, p, t, r + 1)

\* lines 45-46: the loop over enumerate(top_indices, 1); a label lookup
\* outside the table raises IndexError after the lines before it are
\* printed; when the loop is exhausted predict_image returns and the script
\* ends
PrintRanked ==
    /\ pc = "loop"
    /\ steps' = Append(steps, "print_ranked")
    /\ LET out == Ranked(class_names, predictions, top_indices, 1)
       IN  /\ i' = Len(out) + 1
           /\ IF Len(out) = Len(top_indices)
              THEN /\ stdout' = stdout \o out
                   /\ exitCode' = 0
                   /\ pc' = "exit"
                   /\ UNCHANGED exc
              ELSE Raise("IndexError", stdout \o out)
    /\ UNCHANGED <<env, loaded, class_names, img, predictions, top_idx,
                   top_indices>>

Next ==
    \/ Main
    \/ LoadModel
    \/ LoadLabels
    \/ ReadImage
    \/ Preprocess
    \/ Infer
    \/ TopPrediction
    \/ PrintTop
    \/ PrintHeader
    \/ TopIndices
    \/ PrintRanked

Spec == Init /\ [][Next]_vars

\* ------------------------------------------------------------ observations
N == Len(predictions)

Score(idx) == predictions[idx + 1]

Min(a, b) == IF a < b THEN a ELSE b

Done == pc = "exit"

Succeeded == pc = "exit" /\ exitCode = 0

IsReport(l) == l.kind \in {"top", "header", "ranked"}

IsError(l) == l.kind = "error"

IsRanked(l) == l.kind = "ranked"

IsPercent(l) == l.kind \in {"top", "ranked"}

RankedLines == SelectSeq(stdout, IsRanked)

ErrorLines == SelectSeq(stdout, IsError)

ReportLines == SelectSeq(stdout, IsReport)

\* the index a printed label stands for (the names of the table are distinct)
IndexOf(label) ==
    CHOOSE k \in 0..(Len(class_names) - 1) : class_names[k + 1] = label

CompleteReport ==
    /\ Len(ReportLines) = 2 + Min(TopK, N)
    /\ ReportLines[1].kind = "top"
    /\ ReportLines[2] = HeaderLine

\* ------------------------------------------------------------------- C1
\* C1 (as claimed): the 'Top prediction' line carries the same label and the
\* same one-decimal percentage as the rank-1 line of the list, ties for the
\* maximum included.
C1_TopMatchesRankOne ==
    \A a, b \in DOMAIN stdout :
        (stdout[a].kind = "top" /\ stdout[b].kind = "ranked" /\ stdout[b].rank = 1)
            => /\ stdout[a].text = stdout[b].text
               /\ stdout[a].pct = stdout[b].pct

\* ------------------------------------------------------------------- C2
\* C2: for a vector of at least five scores, a successful run lists five
\* distinct classes at ranks 1..5 in non-increasing order of score, and no
\* unlisted class scores strictly more than a listed one.
C2_TopFiveHighest ==
    (Succeeded /\ N >= 5) =>
        LET R == RankedLines
            Idx(r) == IndexOf(R[r].text)
        IN  /\ Len(R) = 5
            /\ \A r \in 1..5 : R[r].rank = r /\ Idx(r) \in 0..(N - 1)
            /\ \A q, r \in 1..5 : q # r => Idx(q) # Idx(r)
            /\ \A r \in 1..4 : /\ Score(Idx(r)) >= Score(Idx(r + 1))
                               /\ R[r].pct >= R[r + 1].pct
            /\ \A j \in 0..(N - 1) :
                   (\A r \in 1..5 : Idx(r) # j)
                       => \A r \in 1..5 : Score(j) <= Score(Idx(r))

\* a successful run over six classes, the unlisted one scoring strictly less
\* than the fifth listed, the first two listed tied
C2_Witness ==
    /\ Succeeded
    /\ N > 5
    /\ Len(RankedLines) = 5
    /\ RankedLines[1].pct = RankedLines[2].pct
    /\ \E j \in 0..(N - 1) :
           Fmt1(Score(j)) < RankedLines[5].pct

\* ------------------------------------------------------------------- C3
\* C3 (as claimed): at exit the output is either the complete report with no
\* error line, or an error line with no report line at all.
C3_NoPartialReport ==
    Done => \/ ErrorLines = <<>> /\ CompleteReport
            \/ ErrorLines # <<>> /\ ReportLines = <<>>

\* ------------------------------------------------------------------- C4
\* C4 (as claimed): every successful run writes exactly seven lines: the top
\* line, the header and ranks 1..5, whatever the number of classes.
C4_SevenLines ==
    Succeeded =>
        /\ Len(stdout) = 7
        /\ stdout[1].kind = "top"
        /\ stdout[2] = HeaderLine
        /\ \A r \in 1..5 : stdout[r + 2].kind = "ranked" /\ stdout[r + 2].rank = r

\* C4 (amended): every successful run writes exactly 2 + min(5, N) lines: the
\* top line, the header and ranks 1..min(5, N) in that order; seven lines
\* exactly when the model outputs at least five classes.
C4_ReportShape ==
    Succeeded =>
        /\ N >= 1
        /\ Len(stdout) = 2 + Min(5, N)
        /\ stdout[1].kind = "top"
        /\ stdout[2] = HeaderLine
        /\ \A r \in 1..Min(5, N) :
               stdout[r + 2].kind = "ranked" /\ stdout[r + 2].rank = r
        /\ (Len(stdout) = 7) <=> (N >= 5)

\* a successful run of a three-class model: five lines
C4_Witness == Succeeded /\ N = 3 /\ Len(stdout) = 5

\* ------------------------------------------------------------------- C5
\* C5: without an image-path argument the process prints the one line
\* 'Error: No image path provided', exits 1 and never starts the pipeline.
C5_NoArgument ==
    argc < 2 =>
        /\ pc \in {"main", "exit"}
        /\ steps = <<>>
        /\ ~loaded /\ class_names = <<>> /\ img = <<>> /\ exc = "none"
        /\ pc = "main" => stdout = <<>> /\ exitCode = -1
        /\ pc = "exit" => stdout = <<NoArgLine>> /\ exitCode = 1

C5_Witness == argc < 2 /\ pc = "exit" /\ stdout = <<NoArgLine>>

\* ------------------------------------------------------------------- C6
\* C6 (as claimed): an unreadable image always ends the run with exit code 1
\* and the dedicated message alone, whatever the model directory and the
\* label file are.
C6_ImageErrorRegardless ==
    (Done /\ argc >= 2 /\ image_file # "valid")
        => exitCode = 1 /\ stdout = <<ImageErrorLine>>

\* C6 (amended): an unreadable image ends the run with exit code 1 and the
\* dedicated message alone, raised by the specific path (SystemExit, no line
\* of the top-level handler), provided the model and the label file loaded;
\* otherwise the image is never read and the handler's line is the output.
C6_ImageError ==
    (Done /\ argc >= 2 /\ image_file # "valid") =>
        IF model_dir = "ok" /\ label_file = "valid"
        THEN /\ exitCode = 1
             /\ stdout = <<ImageErrorLine>>
             /\ exc = "SystemExit"
        ELSE /\ exitCode = 1
             /\ exc \in {"OSError", "FileNotFoundError", "JSONDecodeError"}
             /\ stdout = <<GenericErrorLine(exc)>>
             /\ \A k \in DOMAIN steps : steps[k] # "decode"

C6_Witness ==
    /\ Done /\ image_file = "corrupt" /\ model_dir = "ok" /\ label_file = "valid"
    /\ stdout = <<ImageErrorLine>> /\ steps[Len(steps)] = "decode"

\* ------------------------------------------------------------------- C7
\* C7: every failure of the pipeline but the image decode failure reaches the
\* top-level handler: the run is over with exit code 1, its last line is the
\* handler's 'Error: <text>' and it is the only error line; a run that ends
\* with exit code 0 met no failure.
C7_GenericFailures ==
    /\ exc \notin {"none", "SystemExit"} =>
           /\ Done /\ exitCode = 1
           /\ stdout # <<>> /\ stdout[Len(stdout)] = GenericErrorLine(exc)
           /\ Len(ErrorLines) = 1
    /\ (Done /\ argc >= 2 /\ model_dir # "ok") => exc = "OSError"
    /\ (Done /\ argc >= 2 /\ model_dir = "ok" /\ label_file # "valid")
           => exc \in {"FileNotFoundError", "JSONDecodeError"}
    /\ Succeeded =>
           /\ exc = "none" /\ ErrorLines = <<>>
           /\ model_dir = "ok" /\ label_file = "valid" /\ image_file = "valid"
           /\ N >= 1
           /\ \A r \in DOMAIN top_indices : top_indices[r] < Len(class_names)

\* a label lookup that failed inside the loop, after report lines were printed
C7_Witness ==
    /\ Done /\ exc = "IndexError" /\ exitCode = 1
    /\ Len(RankedLines) >= 1

C9_IndicesInRange ==
    (Len(class_names) = N) =>
        /\ top_idx # -1 => top_idx \in 0..(N - 1)
        /\ \A r \in DOMAIN top_indices : top_indices[r] \in 0..(N - 1)
        /\ \A q, r \in DOMAIN top_indices :
               q # r => top_indices[q] # top_indices[r]
        /\ exc # "IndexError"

C9_Witness ==
    /\ Succeeded
    /\ Len(class_names) = N /\ N > 5
    /\ top_idx = N - 1

\* ------------------------------------------------------------------ C10
\* the stage of the claim a statement belongs to: load model, load label
\* table, decode image, forward pass, rank, print
StageOf(step) ==
    CASE step = "load_model" -> 1
      [] step = "load_labels" -> 2
      [] step \in {"decode", "preprocess"} -> 3
      [] step = "infer" -> 4
      [] step \in {"argmax", "argsort"} -> 5
      [] OTHER -> 6

\* the statements in program order
StepOrder ==
    <<"load_model", "load_labels", "decode", "preprocess", "infer", "argmax",
      "print_top", "print_header", "argsort", "print_ranked">>

\* C10 (as claimed): the stages run strictly in the order load model, load
\* label table, decode image, forward pass, rank, print.
C10_StageOrder ==
    \A a, b \in DOMAIN steps :
        a < b => StageOf(steps[a]) <= StageOf(steps[b])

\* C10 (amended): the statements run strictly in the order load model, load
\* label table, decode image, preprocess, forward pass, argmax, print of the
\* top line, print of the header, argsort, print of the ranked lines (so the
\* ranking of the five is computed after the first two lines are printed),
\* each at most once and none after a failure; the image is decoded only with the model and the label
\* table loaded, nothing follows an undecodable image, and the run ends in
\* exactly one outcome, exit code 0 or exit code 1.
C10_StepOrder ==
    /\ Len(steps) <= Len(StepOrder)
    /\ \A a \in DOMAIN steps : steps[a] = StepOrder[a]
    /\ exc # "none" => Done
    /\ Len(steps) >= 3 => loaded /\ model_dir = "ok" /\ label_file = "valid"
    /\ Len(steps) >= 4 => image_file = "valid" /\ img # <<>>
    /\ Done <=> exitCode \in {0, 1}
    /\ ~Done => exitCode = -1
    /\ exitCode = 0 => exc = "none"

C10_Witness == Succeeded /\ steps = StepOrder

====
